---- MODULE Spec2Model ----
(***************************************************************************)
(* A model of the job execution core of the file library: the shallow      *)
(* indexer job (core/src/location/indexer/shallow_indexer_job.rs), the     *)
(* identifier step (core/src/object/identifier_job/mod.rs) and the         *)
(* invalidateQuery subscription of the event bus (core/src/api/mod.rs).    *)
(*                                                                         *)
(* One location is modelled, so a file_path row's key (location_id, id)    *)
(* is its id.  Every `.await` of a handler is a point where another job    *)
(* may run, so a handler is cut into one action per awaited call.          *)
(***************************************************************************)
EXTENDS Integers, Sequences, FiniteSets, TLC

VARIABLES
    fs,          \* relative paths of the files now on disk under the location
    file_paths,  \* the catalog's file_path rows of the location
    objects,     \* the catalog's object rows (their pub_ids)
    last_id,     \* last_file_path_id_manager's entry for the location
    jobs,        \* the job records, in submission order
    runs,        \* the identifier steps in flight or returned
    bus          \* the event bus and its one subscription

vars == <<fs, file_paths, objects, last_id, jobs, runs, bus>>

----------------------------------------------------------------------------
(* Bounds of the model.                                                    *)

\* Number of indexer jobs ever submitted.
MaxJobs == 2
\* Number of events ever published on the event bus.
MaxEvents == 4
\* Capacity of the broadcast channel behind event_bus.
BusCapacity == 2
\* The clock advances in steps of TickMs milliseconds up to MaxTime.
TickMs == 50
MaxTime == 300
\* Number of identifier steps ever started.
MaxRuns == 2
\* Stand-in for the identifier's chunk size of 100 (identifier_job/mod.rs:28).
CHUNK_SIZE == 2
\* Stand-in for the batch size of 1000 (shallow_indexer_job.rs:32), scaled so
\* that a directory of three entries is written in more than one batch.
BATCH_SIZE == 2

----------------------------------------------------------------------------
(* Values standing for SQL NULL / Option::None.                            *)

NoId == 0
NoCas == "none"
Cold == -1
NoData == [total_paths |-> -1, indexed_paths |-> -1]

\* The event bus before anything is subscribed or sent.
NoBus ==
    [subscribed |-> FALSE, closed |-> FALSE, lagged |-> FALSE,
     buffer |-> <<>>, now |-> 0, last |-> 0,
     sent |-> 0, published |-> <<>>, yielded |-> <<>>]

----------------------------------------------------------------------------
(* Paths.  A path is a sequence of components.                             *)

location_path == <<"loc">>

IsPrefix(p, q) == Len(p) <= Len(q) /\ SubSeq(q, 1, Len(p)) = p

MaterializedPathError == [rel |-> <<"error">>, is_dir |-> FALSE, ok |-> FALSE]

\* MaterializedPath::new: the path relative to the location, with the
\* directory flag (the trailing `/` of the encoding); an error when the path
\* is not under the location.
MaterializedPath(loc_path, full_path, is_dir) ==
    IF IsPrefix(loc_path, full_path)
    THEN [rel |-> SubSeq(full_path, Len(loc_path) + 1, Len(full_path)),
          is_dir |-> is_dir, ok |-> TRUE]
    ELSE MaterializedPathError

\* The entries the location can hold, in the order a directory listing
\* returns them.
AllEntries ==
    << [rel |-> <<"d1">>, is_dir |-> TRUE],
       [rel |-> <<"d2">>, is_dir |-> TRUE],
       [rel |-> <<"d1", "a">>, is_dir |-> FALSE],
       [rel |-> <<"d1", "b">>, is_dir |-> FALSE],
       [rel |-> <<"d1", "c">>, is_dir |-> FALSE],
       [rel |-> <<"d2", "x">>, is_dir |-> FALSE] >>

Range(s) == {s[i] : i \in 1..Len(s)}

Files == {e.rel : e \in {x \in Range(AllEntries) : ~x.is_dir}}

\* The sub_paths a job is submitted with ("" is the location root).
SubPaths == {<<>>, <<"d1">>, <<"d2">>}

Parent(rel) == SubSeq(rel, 1, Len(rel) - 1)

\* sub_paths that fail validation: one leaving the location, one that does
\* not exist, one naming a file.
BadSubPaths == {<<"..", "out">>, <<"d3">>, <<"d1", "a">>}

\* Canonicalization: a `..` component removes the component before it.
RECURSIVE Canonical(_)
Canonical(p) ==
    IF p = <<>> THEN <<>>
    ELSE LET front == Canonical(SubSeq(p, 1, Len(p) - 1))
             last == p[Len(p)]
         IN  IF last = ".."
             THEN IF front = <<>> THEN <<>> ELSE SubSeq(front, 1, Len(front) - 1)
             ELSE Append(front, last)

\* The directories of the disk: the location and its two directories.
IsDirectory(full_path) ==
    \/ full_path = location_path
    \/ \E e \in {x \in Range(AllEntries) : x.is_dir} :
           full_path = location_path \o e.rel

\* ensure_sub_path_is_in_location: the full path of the sub_path, or an
\* error when it is not inside the location after canonicalization.
ensure_sub_path_is_in_location(loc_path, sub_path) ==
    LET full_path == Canonical(loc_path \o sub_path)
    IN  IF IsPrefix(loc_path, full_path)
        THEN [ok |-> TRUE, full_path |-> full_path, error |-> "none"]
        ELSE [ok |-> FALSE, full_path |-> <<>>, error |-> "SubPathNotInLocation"]

\* ensure_sub_path_is_directory: an error unless the sub_path is an existing
\* directory.
ensure_sub_path_is_directory(loc_path, sub_path) ==
    IF IsDirectory(Canonical(loc_path \o sub_path))
    THEN [ok |-> TRUE, error |-> "none"]
    ELSE [ok |-> FALSE, error |-> "SubPathNotDirectory"]

\* walk_single_dir: the immediate entries of one directory, in listing
\* order, as (absolute path, is_dir).
walk_single_dir(to_walk_path, disk) ==
    LET here(e) == /\ Parent(location_path \o e.rel) = to_walk_path
                   /\ (e.is_dir \/ e.rel \in disk)
        hits == SelectSeq(AllEntries, here)
    IN  [i \in 1..Len(hits) |->
            [path |-> location_path \o hits[i].rel, is_dir |-> hits[i].is_dir]]

----------------------------------------------------------------------------
(* Catalog.                                                                *)

Row(id, mp, parent) ==
    [id |-> id, materialized_path |-> mp, parent_id |-> parent,
     cas_id |-> NoCas, object_id |-> NoId]

RootRow == Row(1, MaterializedPath(location_path, location_path, TRUE), NoId)

\* The rows of the location root and of its two directories.
BaseRows ==
    {RootRow,
     Row(2, MaterializedPath(location_path, location_path \o <<"d1">>, TRUE), 1),
     Row(3, MaterializedPath(location_path, location_path \o <<"d2">>, TRUE), 1)}

SetMax(S) == IF S = {} THEN 0 ELSE CHOOSE m \in S : \A x \in S : x <= m

\* fetch of the largest persisted file_path id of the location.
fetch_max_file_path_id(rows) == SetMax({r.id : r \in rows})

\* get_max_file_path_id: the in-memory entry, read from the catalog if cold.
get_max_file_path_id(mem, rows) ==
    IF mem = Cold THEN fetch_max_file_path_id(rows) ELSE mem

\* get_existing_file_path_id: the id of the row with this materialized path.
get_existing_file_path_id(mp, rows) ==
    LET hit == {r \in rows : r.materialized_path = mp}
    IN  IF hit = {} THEN NoId ELSE (CHOOSE r \in hit : TRUE).id

\* find_many_file_paths_by_full_path: the rows whose materialized path is
\* that of one of the given paths (the helper stats each path for is_dir).
find_many_file_paths_by_full_path(found, rows) ==
    {r \in rows :
        \E i \in 1..Len(found) :
            r.materialized_path =
                MaterializedPath(location_path, found[i].path, found[i].is_dir)}

----------------------------------------------------------------------------
(* ShallowIndexerJob::init, its pure parts.                                *)

\* NewPaths without the check against the catalog.
NewPaths_NoFilter(found, already_existing, parent_id) ==
    LET mp(e) == MaterializedPath(location_path, e.path, e.is_dir)
        keep(e) == mp(e).ok
        kept == SelectSeq(found, keep)
    IN  [i \in 1..Len(kept) |->
            [full_path |-> kept[i].path, materialized_path |-> mp(kept[i]),
             file_id |-> 0, parent_id |-> parent_id]]

\* NewPaths materializing every entry as a directory.
NewPaths_AllDirs(found, already_existing, parent_id) ==
    LET mp(e) == MaterializedPath(location_path, e.path, TRUE)
        keep(e) == mp(e).ok /\ mp(e) \notin already_existing
        kept == SelectSeq(found, keep)
    IN  [i \in 1..Len(kept) |->
            [full_path |-> kept[i].path, materialized_path |-> mp(kept[i]),
             file_id |-> 0, parent_id |-> parent_id]]

\* Lines 162-186: the walked entries whose materialized path is not yet in
\* the catalog, in walk order, as step entries with file_id 0.
\* The filter with every entry given the location root as parent.
NewPaths_RootParent(found, already_existing, parent_id) ==
    LET mp(e) == MaterializedPath(location_path, e.path, e.is_dir)
        keep(e) == mp(e).ok /\ mp(e) \notin already_existing
        kept == SelectSeq(found, keep)
    IN  [i \in 1..Len(kept) |->
            [full_path |-> kept[i].path, materialized_path |-> mp(kept[i]),
             file_id |-> 0, parent_id |-> RootRow.id]]

NewPaths(found, already_existing, parent_id) ==
    LET mp(e) == MaterializedPath(location_path, e.path, e.is_dir)
        keep(e) == mp(e).ok /\ mp(e) \notin already_existing
        kept == SelectSeq(found, keep)
    IN  [i \in 1..Len(kept) |->
            [full_path |-> kept[i].path, materialized_path |-> mp(kept[i]),
             file_id |-> 0, parent_id |-> parent_id]]

\* Line 189.
LastFileId(first_file_id, total_paths) == first_file_id + total_paths

\* Lines 196-201: zip the entries with first_file_id..last_file_id (exclusive).
AssignIds(new_paths, first_file_id, last_file_id) ==
    [i \in 1..Len(new_paths) |->
        IF first_file_id + (i - 1) < last_file_id
        THEN [new_paths[i] EXCEPT !.file_id = first_file_id + (i - 1)]
        ELSE new_paths[i]]

\* Lines 212-232: itertools chunks(BATCH_SIZE).
RECURSIVE Chunks(_, _)
Chunks(s, n) ==
    IF Len(s) = 0 THEN <<>>
    ELSE IF Len(s) <= n THEN <<s>>
    ELSE <<SubSeq(s, 1, n)>> \o Chunks(SubSeq(s, n + 1, Len(s)), n)

RECURSIVE Flatten(_)
Flatten(ss) == IF Len(ss) = 0 THEN <<>> ELSE Head(ss) \o Flatten(Tail(ss))

\* impl Hash for ShallowIndexerJobInit.
ShallowIndexerJobInitHash(init) == <<init.location_id, init.sub_path>>

\* Option<PathBuf>.
None == [some |-> FALSE, path |-> <<>>]
Some(path) == [some |-> TRUE, path |-> path]

\* impl Hash for ThumbnailerJobInit (thumbnailer_job.rs, lines 39-46): what
\* is fed to the hasher.
ThumbnailerJobInitHash(init) ==
    IF init.sub_path.some
    THEN <<init.location_id, init.sub_path.path>>
    ELSE <<init.location_id>>

\* The runtime's hash of a job: its name and the hash of its init.
JobHash(job) ==
    <<job.name,
      IF job.name = "thumbnailer"
      THEN ThumbnailerJobInitHash(job.init)
      ELSE ShallowIndexerJobInitHash(job.init)>>

----------------------------------------------------------------------------
(* Indexer jobs.                                                           *)

\* A job's state: init, the locals of init kept across its awaits
\* (first_file_id, parent_id, found, already_existing), steps and data.
\* `planned` keeps the step queue as init built it.
NewJob(sub_path) ==
    [name |-> "shallow_indexer",
     init |-> [location_id |-> 1, sub_path |-> sub_path],
     status |-> "Running", error |-> "none", pc |-> "get_max",
     first_file_id |-> 0, parent_id |-> NoId,
     found |-> <<>>, already_existing |-> {},
     steps |-> <<>>, planned |-> <<>>, data |-> NoData]

JobIds == 1..Len(jobs)
JobSlots == 1..MaxJobs

Active(j) == j \in JobIds /\ jobs[j].status = "Running"

\* The runtime's deduplication: a submission whose hash is that of a Running
\* job is rejected unless forced.
Submit(sub_path, force) ==
    /\ Len(jobs) < MaxJobs
    /\ force \/ \A k \in JobIds :
                   Active(k) => JobHash(jobs[k]) # JobHash(NewJob(sub_path))
    /\ jobs' = Append(jobs, NewJob(sub_path))
    /\ UNCHANGED <<fs, file_paths, objects, last_id, runs, bus>>

\* Lines 77-82: first_file_id = get_max_file_path_id(..) + 1.
InitGetMax(j) ==
    /\ Active(j) /\ jobs[j].pc = "get_max"
    /\ last_id' = get_max_file_path_id(last_id, file_paths)
    /\ jobs' = [jobs EXCEPT ![j].first_file_id = last_id' + 1, ![j].pc = "walk"]
    /\ UNCHANGED <<fs, file_paths, objects, runs, bus>>

\* The validation accepting every sub_path.
ValidateSubPath_Accepting(sub_path) ==
    [ok |-> TRUE, full_path |-> Canonical(location_path \o sub_path),
     error |-> "none"]

\* Lines 95-101 and 70-76 of the thumbnailer: a non-empty sub_path must be
\* inside the location and be a directory; `?` returns the first error.
ValidateSubPath(sub_path) ==
    LET in_location == ensure_sub_path_is_in_location(location_path, sub_path)
        is_directory == ensure_sub_path_is_directory(location_path, sub_path)
    IN  IF ~in_location.ok THEN in_location
        ELSE IF ~is_directory.ok
        THEN [ok |-> FALSE, full_path |-> <<>>, error |-> is_directory.error]
        ELSE in_location

\* Lines 95-142: the directory to walk, its persisted id, and the walk.  An
\* error of the validation is returned from init and the job fails.
InitWalk(j) ==
    /\ Active(j) /\ jobs[j].pc = "walk"
    /\ LET sub_path == jobs[j].init.sub_path
           checked == IF sub_path # <<>> THEN ValidateSubPath(sub_path)
                      ELSE [ok |-> TRUE, full_path |-> location_path,
                            error |-> "none"]
           to_walk_path == location_path \o sub_path
           parent_id == get_existing_file_path_id(
                            MaterializedPath(location_path, checked.full_path, TRUE),
                            file_paths)
       IN  IF ~checked.ok
           THEN jobs' = [jobs EXCEPT ![j].status = "Failed",
                                     ![j].error = checked.error]
           ELSE jobs' = [jobs EXCEPT ![j].parent_id = parent_id,
                                     ![j].found = walk_single_dir(to_walk_path, fs),
                                     ![j].pc = "query"]
    /\ UNCHANGED <<fs, file_paths, objects, last_id, runs, bus>>

\* Lines 144-159: the materialized paths already in the catalog.
InitQuery(j) ==
    /\ Active(j) /\ jobs[j].pc = "query"
    /\ jobs' = [jobs EXCEPT
                   ![j].already_existing =
                       {r.materialized_path :
                           r \in find_many_file_paths_by_full_path(jobs[j].found, file_paths)},
                   ![j].pc = "reserve"]
    /\ UNCHANGED <<fs, file_paths, objects, last_id, runs, bus>>

\* Lines 161-234: filter, set the allocator, assign the ids, build the steps.
InitReserve(j) ==
    /\ Active(j) /\ jobs[j].pc = "reserve"
    /\ LET new_paths == NewPaths(jobs[j].found, jobs[j].already_existing,
                                 jobs[j].parent_id)
           total_paths == Len(new_paths)
           last_file_id == LastFileId(jobs[j].first_file_id, total_paths)
           with_ids == AssignIds(new_paths, jobs[j].first_file_id, last_file_id)
       IN  /\ last_id' = last_file_id
           /\ jobs' = [jobs EXCEPT
                          ![j].data = [total_paths |-> total_paths, indexed_paths |-> 0],
                          ![j].steps = Chunks(with_ids, BATCH_SIZE),
                          ![j].planned = Chunks(with_ids, BATCH_SIZE),
                          ![j].pc = "steps"]
    /\ UNCHANGED <<fs, file_paths, objects, runs, bus>>

\* execute_indexer_step: one insert of the chunk's rows; an insert colliding
\* on (location_id, id) fails the whole batch.
StepRows(step) ==
    {Row(step[i].file_id, step[i].materialized_path, step[i].parent_id) :
        i \in 1..Len(step)}

Collides(step, rows) ==
    \/ \E i \in 1..Len(step) : \E r \in rows : r.id = step[i].file_id
    \/ \E i, k \in 1..Len(step) : i # k /\ step[i].file_id = step[k].file_id

\* execute_step reconciling the directory: the rows of the walked directory
\* that the walk did not find are deleted before the chunk is written.
ExecuteStep_Reconciling(j) ==
    /\ Active(j) /\ jobs[j].pc = "steps" /\ jobs[j].steps # <<>>
    /\ LET step == Head(jobs[j].steps)
           walked == {MaterializedPath(location_path, e.path, e.is_dir) :
                         e \in Range(jobs[j].found)}
           kept == {r \in file_paths :
                       r.parent_id = jobs[j].parent_id => r.materialized_path \in walked}
       IN  IF Collides(step, file_paths)
           THEN /\ jobs' = [jobs EXCEPT ![j].status = "Failed"]
                /\ UNCHANGED file_paths
           ELSE /\ file_paths' = kept \cup StepRows(step)
                /\ jobs' = [jobs EXCEPT ![j].data.indexed_paths = Len(step),
                                        ![j].steps = Tail(jobs[j].steps)]
    /\ UNCHANGED <<fs, objects, last_id, runs, bus>>

\* Lines 238-252: execute_step writes steps[0]; the runtime then pops it, or
\* fails the job on an error.
ExecuteStep(j) ==
    /\ Active(j) /\ jobs[j].pc = "steps" /\ jobs[j].steps # <<>>
    /\ LET step == Head(jobs[j].steps)
       IN  IF Collides(step, file_paths)
           THEN /\ jobs' = [jobs EXCEPT ![j].status = "Failed"]
                /\ UNCHANGED file_paths
           ELSE /\ file_paths' = file_paths \cup StepRows(step)
                /\ jobs' = [jobs EXCEPT ![j].data.indexed_paths = Len(step),
                                        ![j].steps = Tail(jobs[j].steps)]
    /\ UNCHANGED <<fs, objects, last_id, runs, bus>>

\* Running -> Completed when no step is left.
Finalize(j) ==
    /\ Active(j) /\ jobs[j].pc = "steps" /\ jobs[j].steps = <<>>
    /\ jobs' = [jobs EXCEPT ![j].status = "Completed"]
    /\ UNCHANGED <<fs, file_paths, objects, last_id, runs, bus>>

\* Running -> Canceled at a step boundary; written rows are kept.
Cancel(j) ==
    /\ Active(j) /\ jobs[j].pc = "steps"
    /\ jobs' = [jobs EXCEPT ![j].status = "Canceled"]
    /\ UNCHANGED <<fs, file_paths, objects, last_id, runs, bus>>

\* A file appears on, or disappears from, the disk.
FsCreate(p) ==
    /\ p \notin fs
    /\ fs' = fs \cup {p}
    /\ UNCHANGED <<file_paths, objects, last_id, jobs, runs, bus>>

FsRemove(p) ==
    /\ p \in fs
    /\ fs' = fs \ {p}
    /\ UNCHANGED <<file_paths, objects, last_id, jobs, runs, bus>>

----------------------------------------------------------------------------
(* Indexer jobs running concurrently on one location.                      *)

InitIndexer ==
    /\ fs \in SUBSET Files
    /\ file_paths = BaseRows
    /\ objects = {}
    /\ last_id = Cold
    /\ jobs = <<>>
    /\ runs = <<>>
    /\ bus = NoBus

NextIndexer ==
    \/ \E s \in SubPaths : \E force \in BOOLEAN : Submit(s, force)
    \/ \E j \in JobSlots : InitGetMax(j)
    \/ \E j \in JobSlots : InitWalk(j)
    \/ \E j \in JobSlots : InitQuery(j)
    \/ \E j \in JobSlots : InitReserve(j)
    \/ \E j \in JobSlots : ExecuteStep(j)
    \/ \E j \in JobSlots : Finalize(j)
    \/ \E j \in JobSlots : Cancel(j)

SpecIndexer == InitIndexer /\ [][NextIndexer]_vars

----------------------------------------------------------------------------
(* Indexer jobs run one after the other on an unchanged filesystem.        *)

NoneActive == \A k \in JobIds : ~Active(k)

SubmitSeq(sub_path) == NoneActive /\ Submit(sub_path, FALSE)

NextIndexerSeq ==
    \/ \E s \in SubPaths : SubmitSeq(s)
    \/ \E j \in JobSlots : InitGetMax(j)
    \/ \E j \in JobSlots : InitWalk(j)
    \/ \E j \in JobSlots : InitQuery(j)
    \/ \E j \in JobSlots : InitReserve(j)
    \/ \E j \in JobSlots : ExecuteStep(j)
    \/ \E j \in JobSlots : Finalize(j)
    \/ \E j \in JobSlots : Cancel(j)

SpecIndexerSeq == InitIndexer /\ [][NextIndexerSeq]_vars

----------------------------------------------------------------------------
(* Indexer jobs run one after the other while files come and go.           *)

NextIndexerFs ==
    \/ \E s \in SubPaths : SubmitSeq(s)
    \/ \E j \in JobSlots : InitGetMax(j)
    \/ \E j \in JobSlots : InitWalk(j)
    \/ \E j \in JobSlots : InitQuery(j)
    \/ \E j \in JobSlots : InitReserve(j)
    \/ \E j \in JobSlots : ExecuteStep(j)
    \/ \E j \in JobSlots : Finalize(j)
    \/ \E j \in JobSlots : Cancel(j)
    \/ \E p \in Files : FsCreate(p)
    \/ \E p \in Files : FsRemove(p)

SpecIndexerFs == InitIndexer /\ [][NextIndexerFs]_vars

----------------------------------------------------------------------------
(* The process stops and starts again between sequential jobs.             *)

\* What the runtime persisted of a job at its last step boundary: a job
\* stopped inside init has no steps yet and runs init again.
Persisted(job) ==
    IF job.pc = "steps" THEN job
    ELSE [NewJob(job.init.sub_path) EXCEPT !.status = job.status]

\* The process stops: the in-memory allocator is lost, and on startup every
\* Running job is re-queued Paused.
Restart ==
    /\ \E k \in JobIds : Active(k)
    /\ last_id' = Cold
    /\ jobs' = [k \in JobIds |->
                   IF Active(k)
                   THEN [Persisted(jobs[k]) EXCEPT !.status = "Paused"]
                   ELSE jobs[k]]
    /\ UNCHANGED <<fs, file_paths, objects, runs, bus>>

\* Paused -> Running on resume.
Resume(j) ==
    /\ j \in JobIds
    /\ jobs[j].status = "Paused"
    /\ NoneActive
    /\ jobs' = [jobs EXCEPT ![j].status = "Running"]
    /\ UNCHANGED <<fs, file_paths, objects, last_id, runs, bus>>

NextIndexerRestart ==
    \/ \E s \in SubPaths : SubmitSeq(s)
    \/ \E j \in JobSlots : InitGetMax(j)
    \/ \E j \in JobSlots : InitWalk(j)
    \/ \E j \in JobSlots : InitQuery(j)
    \/ \E j \in JobSlots : InitReserve(j)
    \/ \E j \in JobSlots : ExecuteStep(j)
    \/ \E j \in JobSlots : Finalize(j)
    \/ \E j \in JobSlots : Cancel(j)
    \/ Restart
    \/ \E j \in JobSlots : Resume(j)

SpecIndexerRestart == InitIndexer /\ [][NextIndexerRestart]_vars

----------------------------------------------------------------------------
(* Claims about the indexer.                                               *)

Entries(job) == Range(Flatten(job.planned))
IdsOf(job) == {e.file_id : e \in Entries(job)}
PathsOf(steps) == {e.materialized_path : e \in Range(Flatten(steps))}
Reserved(j) == jobs[j].pc = "steps"

\* C1: indexer jobs on different sub_paths of the location are never handed
\* a common id, however their inits interleave.
C1_DisjointIdRanges ==
    \A j, k \in JobIds :
        (j # k /\ jobs[j].init.sub_path # jobs[k].init.sub_path)
            => IdsOf(jobs[j]) \cap IdsOf(jobs[k]) = {}

\* C5: after a restart no id is reused: no two jobs hold the same id for
\* different paths, and no batch insert fails on a colliding key.
C5_NoReuseAcrossRestart ==
    /\ \A j \in JobIds : jobs[j].status # "Failed"
    /\ \A j, k \in JobIds :
           \A e \in Entries(jobs[j]) : \A f \in Entries(jobs[k]) :
               e.file_id = f.file_id => e.materialized_path = f.materialized_path

\* C9: a run that reads high-watermark m and finds n new paths leaves the
\* high-watermark at m + n and hands out exactly m+1..m+n.
C9_ReserveAdvancesByN ==
    \A j \in JobIds :
        (Active(j) /\ Reserved(j)) =>
            LET m == jobs[j].first_file_id - 1
                n == jobs[j].data.total_paths
            IN  /\ last_id = m + n
                /\ IdsOf(jobs[j]) = (m + 1)..(m + n)

\* The ids assigned to the location before job j ran: those of the rows the
\* location started with and those handed to the jobs submitted before j.
AssignedBefore(j) ==
    {r.id : r \in BaseRows} \cup UNION {IdsOf(jobs[k]) : k \in 1..(j - 1)}

\* The position of a path in the walk of a job.
WalkIndex(job, path) == CHOOSE i \in 1..Len(job.found) : job.found[i].path = path

\* C21: reading a run's step queue chunk by chunk, the entries are the new
\* paths in walk order and the j-th of them (from 0) carries first_id + j,
\* first_id being the largest id assigned to the location before the run
\* plus one; so every id of the run is above every id assigned before it.
C21_IdsInWalkOrderFromPreviousMax ==
    \A j \in JobIds :
        Reserved(j) =>
            LET entries == Flatten(jobs[j].planned)
                first_id == SetMax(AssignedBefore(j)) + 1
            IN  /\ \A i \in 1..Len(entries) :
                       entries[i].file_id = first_id + (i - 1)
                /\ \A i, k \in 1..Len(entries) :
                       i < k => WalkIndex(jobs[j], entries[i].full_path)
                                    < WalkIndex(jobs[j], entries[k].full_path)
                /\ \A i \in 1..Len(entries) : \A id \in AssignedBefore(j) :
                       entries[i].file_id > id

\* C22: every row inserted by a completed run has as parent_id the id of
\* the row of the walked directory (the sub_path, or the location root),
\* which the run did not insert itself, is a directory row, and has a
\* materialized_path that is a prefix of the inserted row's.
C22_ParentIsWalkedDirectory ==
    \A j \in JobIds :
        jobs[j].status = "Completed" =>
            \A e \in Entries(jobs[j]) :
                \E r \in file_paths :
                    /\ r.id = e.file_id
                    /\ r.materialized_path = e.materialized_path
                    /\ \E d \in file_paths :
                           /\ d.id = r.parent_id
                           /\ d.id \notin IdsOf(jobs[j])
                           /\ d.materialized_path.is_dir
                           /\ d.materialized_path.rel = jobs[j].init.sub_path
                           /\ IsPrefix(d.materialized_path.rel,
                                       r.materialized_path.rel)

\* A run on a sub_path completed after writing three rows in two batches.
C22_Witness ==
    \E j \in JobIds :
        /\ jobs[j].status = "Completed"
        /\ jobs[j].init.sub_path # <<>>
        /\ Len(jobs[j].planned) = 2
        /\ Cardinality(Entries(jobs[j])) = 3

Walked(job) ==
    {MaterializedPath(location_path, e.path, e.is_dir) : e \in Range(job.found)}

RowsAt(mp) == {r \in file_paths : r.materialized_path = mp}

\* Job j is the resubmission of the init of the job submitted just before it.
Resubmits(j, status) ==
    /\ j \in JobIds /\ j > 1
    /\ jobs[j].init = jobs[j - 1].init
    /\ jobs[j - 1].status = status

Done(job) == Len(job.planned) - Len(job.steps)

\* C6: a canceled job leaves exactly the rows of its completed batches; the
\* resubmitted init plans exactly the paths the canceled job had left, does
\* not fail, and on completion every walked path has exactly one row.
C6_CancelThenResubmit ==
    /\ \A j \in JobIds :
           jobs[j].status = "Canceled" =>
               \A i \in 1..Len(jobs[j].planned) :
                   StepRows(jobs[j].planned[i]) \subseteq file_paths
                       <=> i <= Done(jobs[j])
    /\ \A j \in JobIds :
           Resubmits(j, "Canceled") =>
               /\ jobs[j].status # "Failed"
               /\ Reserved(j) => PathsOf(jobs[j].planned) = PathsOf(jobs[j - 1].steps)
               /\ jobs[j].status = "Completed" =>
                      \A mp \in Walked(jobs[j]) : Cardinality(RowsAt(mp)) = 1
    /\ \A r1, r2 \in file_paths : r1.id = r2.id => r1 = r2

\* A job canceled after one of its two batches, then resubmitted and completed.
C6_Witness ==
    \E j \in JobIds :
        /\ Resubmits(j, "Canceled")
        /\ Done(jobs[j - 1]) >= 1
        /\ Len(jobs[j - 1].steps) >= 1
        /\ jobs[j].status = "Completed"
        /\ jobs[j].planned # <<>>

\* C7: while the rerun of a completed job's init runs, the catalog does not
\* change, and its init builds an empty step queue.
C7_SecondRunInsertsNothing ==
    [][\A j \in JobIds :
           (Resubmits(j, "Completed") /\ Active(j)) =>
               /\ file_paths' = file_paths
               /\ jobs'[j].pc = "steps" =>
                      /\ jobs'[j].steps = <<>>
                      /\ jobs'[j].data.total_paths = 0]_vars

\* A completed rerun of a job that had inserted rows.
C7_Witness ==
    \E j \in JobIds :
        /\ Resubmits(j, "Completed")
        /\ jobs[j - 1].planned # <<>>
        /\ jobs[j].status = "Completed"

\* C8: no step of an indexer job removes or changes a row; every row added
\* is a row of the batch of some job, for a path that job walked and did not
\* find in the catalog.
C8_PurelyAdditive ==
    [][/\ file_paths \subseteq file_paths'
       /\ \A r \in file_paths' \ file_paths :
              \E j \in JobIds :
                  /\ jobs[j].steps # <<>>
                  /\ r \in StepRows(Head(jobs[j].steps))
                  /\ r.materialized_path \in Walked(jobs[j])
                  /\ r.materialized_path \notin jobs[j].already_existing]_vars

\* A job completed on a directory that holds a row whose file its walk did
\* not find.
C8_Witness ==
    \E j \in JobIds : \E r \in file_paths :
        /\ jobs[j].status = "Completed"
        /\ jobs[j].planned # <<>>
        /\ r.parent_id = jobs[j].parent_id
        /\ r.id < jobs[j].first_file_id
        /\ r.materialized_path \notin Walked(jobs[j])

----------------------------------------------------------------------------
(* The identifier step, identifier_job_step.                               *)

\* The catalog after the location's files were indexed: ids 4..7.
IndexedRows ==
    BaseRows \cup
    {Row(3 + i, MaterializedPath(location_path,
                                 location_path \o AllEntries[2 + i].rel, FALSE),
         IF Parent(AllEntries[2 + i].rel) = <<"d1">> THEN 2 ELSE 3) :
        i \in 1..(Len(AllEntries) - 2)}

\* generate_cas_id of the file's content: d1/a, d1/b and d2/x hold the same
\* bytes, d1/c differs.
generate_cas_id(rel) == IF rel = <<"d1", "c">> THEN "Y" ELSE "X"

RowOf(id) == CHOOSE r \in file_paths : r.id = id

\* The file_paths an identifier job is given: files not yet identified.
Orphans ==
    {r.id : r \in {x \in file_paths :
                      ~x.materialized_path.is_dir /\ x.cas_id = NoCas}}

NoResult == [status |-> "none", created |-> 0, linked |-> 0]

NewRun(chunk) ==
    [file_paths |-> chunk, pc |-> "metadata",
     file_path_metas |-> <<>>, existing_objects |-> {},
     updated_file_paths |-> {}, requiring_new_object |-> {},
     new_pub_id |-> <<>>, total_created |-> 0, result |-> NoResult]

RunIds == 1..Len(runs)
RunSlots == 1..MaxRuns

At(r, pc) == r \in RunIds /\ runs[r].pc = pc
InFlight(r) == r \in RunIds /\ runs[r].pc # "done"

\* A job calls identifier_job_step with a chunk of its file_paths.
StartStep(chunk) ==
    /\ Len(runs) < MaxRuns
    /\ chunk # {} /\ Cardinality(chunk) <= CHUNK_SIZE
    /\ \A r \in RunIds : InFlight(r) => runs[r].file_paths \cap chunk = {}
    /\ runs' = Append(runs, NewRun(chunk))
    /\ UNCHANGED <<fs, file_paths, objects, last_id, jobs, bus>>

\* FileMetadata::new, lines 49-77: an io::Error when the file is not there.
FileMetadataOk(id, disk) == RowOf(id).materialized_path.rel \in disk

\* The metadata of the chunk with one error discarding every result.
FilePathMetas_AllOrNothing(chunk, disk) ==
    [id \in IF \A x \in chunk : FileMetadataOk(x, disk) THEN chunk ELSE {} |->
        generate_cas_id(RowOf(id).materialized_path.rel)]

\* Lines 88-102: the metadata of the chunk's file_paths, errors dropped.
FilePathMetas(chunk, disk) ==
    [id \in {x \in chunk : FileMetadataOk(x, disk)} |->
        generate_cas_id(RowOf(id).materialized_path.rel)]

AssembleMetadata(r) ==
    /\ At(r, "metadata")
    /\ runs' = [runs EXCEPT ![r].file_path_metas = FilePathMetas(runs[r].file_paths, fs),
                            ![r].pc = "write_cas"]
    /\ UNCHANGED <<fs, file_paths, objects, last_id, jobs, bus>>

Failed(run) == [run EXCEPT !.pc = "done", !.result.status = "err"]

Returned(run, created, linked) ==
    [run EXCEPT !.pc = "done",
                !.result = [status |-> "ok", created |-> created, linked |-> linked]]

\* Lines 104-128: one batch setting cas_id on every file_path with metadata.
WriteCasIds(r, db_ok) ==
    /\ At(r, "write_cas")
    /\ LET metas == runs[r].file_path_metas
       IN  IF db_ok
           THEN /\ file_paths' =
                       {IF x.id \in DOMAIN metas
                        THEN [x EXCEPT !.cas_id = metas[x.id]] ELSE x : x \in file_paths}
                /\ runs' = [runs EXCEPT ![r].pc = "find_existing"]
           ELSE /\ runs' = [runs EXCEPT ![r] = Failed(runs[r])]
                /\ UNCHANGED file_paths
    /\ UNCHANGED <<fs, objects, last_id, jobs, bus>>

UniqueCasIds(metas) == {metas[id] : id \in DOMAIN metas}

LinkedTo(pub_id, rows) == {x \in rows : x.object_id = pub_id}

\* Lines 137-148: the objects with some file_path whose cas_id is one of the
\* chunk's, each with the (id, cas_id) of all its file_paths.
ExistingObjects(metas, objs, rows) ==
    {[pub_id |-> o,
      file_paths |-> {[id |-> x.id, cas_id |-> x.cas_id] : x \in LinkedTo(o, rows)}] :
        o \in {p \in objs :
                  \E x \in LinkedTo(p, rows) : x.cas_id \in UniqueCasIds(metas)}}

\* Lines 150-153.
ExistingObjectCasIds(existing_objects) ==
    {fp.cas_id : fp \in UNION {o.file_paths : o \in existing_objects}} \ {NoCas}

\* Lines 130-153: the query; its error is returned.
FindExistingObjects(r, db_ok) ==
    /\ At(r, "find_existing")
    /\ runs' = [runs EXCEPT ![r] =
                   IF db_ok
                   THEN [runs[r] EXCEPT
                            !.existing_objects =
                                ExistingObjects(runs[r].file_path_metas, objects,
                                                file_paths),
                            !.pc = "connect_existing"]
                   ELSE Failed(runs[r])]
    /\ UNCHANGED <<fs, file_paths, objects, last_id, jobs, bus>>

SetMin(S) == CHOOSE m \in S : \A x \in S : m <= x

\* Lines 160-171: for each file_path the first existing object that has a
\* file_path with its cas_id (the catalog returns objects oldest first).
ConnectsToExisting(metas, existing_objects) ==
    LET matches(id) == {o.pub_id : o \in {e \in existing_objects :
                            \E fp \in e.file_paths : fp.cas_id = metas[id]}}
    IN  [id \in {x \in DOMAIN metas : matches(x) # {}} |-> SetMin(matches(id))]

\* Every file_path with metadata taken as requiring a new object.
FilePathsRequiringNewObject_All(metas, existing_objects) == DOMAIN metas

\* Lines 191-195.
FilePathsRequiringNewObject(metas, existing_objects) ==
    {id \in DOMAIN metas : metas[id] \notin ExistingObjectCasIds(existing_objects)}

Connect(rows, links) ==
    {IF x.id \in DOMAIN links THEN [x EXCEPT !.object_id = links[x.id]] ELSE x :
        x \in rows}

\* Lines 155-195: the batch connecting to existing objects; then the
\* file_paths left for new objects, and the return when there is none.
ConnectExisting(r, db_ok) ==
    /\ At(r, "connect_existing")
    /\ LET links == ConnectsToExisting(runs[r].file_path_metas, runs[r].existing_objects)
           requiring == FilePathsRequiringNewObject(runs[r].file_path_metas,
                                                    runs[r].existing_objects)
           linked == [runs[r] EXCEPT !.updated_file_paths = DOMAIN links,
                                     !.requiring_new_object = requiring]
       IN  IF db_ok
           THEN /\ file_paths' = Connect(file_paths, links)
                /\ runs' = [runs EXCEPT ![r] =
                               IF requiring = {}
                               THEN Returned(linked, 0, Cardinality(DOMAIN links))
                               ELSE [linked EXCEPT !.pc = "create"]]
           ELSE /\ runs' = [runs EXCEPT ![r] = Failed(runs[r])]
                /\ UNCHANGED file_paths
    /\ UNCHANGED <<fs, objects, last_id, jobs, bus>>

\* Lines 209-251: one Uuid::new_v4() per file_path requiring a new object.
NewPubIds(requiring, objs) ==
    [id \in requiring |-> SetMax(objs) + Cardinality({x \in requiring : x <= id})]

\* Lines 253-266: create_many of the new objects; an error is logged and
\* counted as 0 created.  Lines 268, 277-282: with 0 created the step returns.
CreateObjects(r, db_ok) ==
    /\ At(r, "create")
    /\ LET pub_ids == NewPubIds(runs[r].requiring_new_object, objects)
           total_created_files == IF db_ok THEN Cardinality(DOMAIN pub_ids) ELSE 0
           created == [runs[r] EXCEPT !.new_pub_id = pub_ids,
                                      !.total_created = total_created_files]
       IN  /\ objects' = IF db_ok THEN objects \cup {pub_ids[id] : id \in DOMAIN pub_ids}
                         ELSE objects
           /\ runs' = [runs EXCEPT ![r] =
                          IF total_created_files > 0
                          THEN [created EXCEPT !.pc = "connect_new"]
                          ELSE Returned(created, 0,
                                        Cardinality(runs[r].updated_file_paths))]
    /\ UNCHANGED <<fs, file_paths, last_id, jobs, bus>>

\* Lines 268-282: the batch connecting each file_path to its new object.
ConnectNew(r, db_ok) ==
    /\ At(r, "connect_new")
    /\ IF db_ok
       THEN /\ file_paths' = Connect(file_paths, runs[r].new_pub_id)
            /\ runs' = [runs EXCEPT ![r] =
                           Returned(runs[r], runs[r].total_created,
                                    Cardinality(runs[r].updated_file_paths))]
       ELSE /\ runs' = [runs EXCEPT ![r] = Failed(runs[r])]
            /\ UNCHANGED file_paths
    /\ UNCHANGED <<fs, objects, last_id, jobs, bus>>

InitIdentifier ==
    /\ fs \in SUBSET Files
    /\ file_paths = IndexedRows
    /\ objects = {}
    /\ last_id = Cold
    /\ jobs = <<>>
    /\ runs = <<>>
    /\ bus = NoBus

\* Identifier steps of concurrent jobs.
NextIdentifier ==
    \/ \E chunk \in SUBSET Orphans : StartStep(chunk)
    \/ \E r \in RunSlots : AssembleMetadata(r)
    \/ \E r \in RunSlots : \E db_ok \in BOOLEAN : WriteCasIds(r, db_ok)
    \/ \E r \in RunSlots : \E db_ok \in BOOLEAN : FindExistingObjects(r, db_ok)
    \/ \E r \in RunSlots : \E db_ok \in BOOLEAN : ConnectExisting(r, db_ok)
    \/ \E r \in RunSlots : \E db_ok \in BOOLEAN : CreateObjects(r, db_ok)
    \/ \E r \in RunSlots : \E db_ok \in BOOLEAN : ConnectNew(r, db_ok)

SpecIdentifier == InitIdentifier /\ [][NextIdentifier]_vars

\* Identifier steps run one after the other.
StartStepSeq(chunk) == (\A r \in RunIds : ~InFlight(r)) /\ StartStep(chunk)

NextIdentifierSeq ==
    \/ \E chunk \in SUBSET Orphans : StartStepSeq(chunk)
    \/ \E r \in RunSlots : AssembleMetadata(r)
    \/ \E r \in RunSlots : \E db_ok \in BOOLEAN : WriteCasIds(r, db_ok)
    \/ \E r \in RunSlots : \E db_ok \in BOOLEAN : FindExistingObjects(r, db_ok)
    \/ \E r \in RunSlots : \E db_ok \in BOOLEAN : ConnectExisting(r, db_ok)
    \/ \E r \in RunSlots : \E db_ok \in BOOLEAN : CreateObjects(r, db_ok)
    \/ \E r \in RunSlots : \E db_ok \in BOOLEAN : ConnectNew(r, db_ok)

SpecIdentifierSeq == InitIdentifier /\ [][NextIdentifierSeq]_vars

\* Identifier steps run one after the other on a catalog whose calls all
\* succeed; files may be missing from the disk.
NextIdentifierDbOk ==
    \/ \E chunk \in SUBSET Orphans : StartStepSeq(chunk)
    \/ \E r \in RunSlots : AssembleMetadata(r)
    \/ \E r \in RunSlots : WriteCasIds(r, TRUE)
    \/ \E r \in RunSlots : FindExistingObjects(r, TRUE)
    \/ \E r \in RunSlots : ConnectExisting(r, TRUE)
    \/ \E r \in RunSlots : CreateObjects(r, TRUE)
    \/ \E r \in RunSlots : ConnectNew(r, TRUE)

SpecIdentifierDbOk == InitIdentifier /\ [][NextIdentifierDbOk]_vars

----------------------------------------------------------------------------
(* Claims about the identifier.                                            *)

Quiescent == \A r \in RunIds : ~InFlight(r)

ObjectsOfCas(cas) ==
    {x.object_id : x \in {y \in file_paths : y.cas_id = cas /\ y.object_id # NoId}}

\* C2: in every state, the file_paths carrying one cas_id are linked to at
\* most one Object.
C2_OneObjectPerCasId ==
    \A x \in file_paths :
        x.cas_id # NoCas => Cardinality(ObjectsOfCas(x.cas_id)) <= 1

\* C3: a step that returns having created objects created one Object per
\* distinct cas_id that had none, and linked the file_paths of one cas_id
\* to the same Object.
C3_OneNewObjectPerCasId ==
    \A r \in RunIds :
        (runs[r].pc = "done" /\ runs[r].result.status = "ok"
                             /\ runs[r].total_created > 0) =>
            LET metas == runs[r].file_path_metas
                req == runs[r].requiring_new_object
            IN  /\ runs[r].result.created = Cardinality({metas[id] : id \in req})
                /\ \A a, b \in req :
                       metas[a] = metas[b] => runs[r].new_pub_id[a] = runs[r].new_pub_id[b]

\* C4: when no step is in flight and every step has returned success, every
\* file_path with a cas_id is linked to an Object of the catalog that has a
\* file_path with that cas_id.
C4_LinkedAtStepBoundary ==
    (Quiescent /\ \A r \in RunIds : runs[r].result.status = "ok") =>
        \A x \in file_paths :
            x.cas_id # NoCas =>
                /\ x.object_id \in objects
                /\ \E y \in LinkedTo(x.object_id, file_paths) : y.cas_id = x.cas_id

\* The step that was started last; with steps run one after the other no
\* other step has written to the catalog since it returned.
LastRun == Len(runs)

ReturnedOk(r) == runs[r].pc = "done" /\ runs[r].result.status = "ok"

\* C16: a step returns (objects_created, file_paths_linked): the number of
\* Objects it created and the number of its chunk's file_paths it connected
\* to an Object, existing or new.
C16_ReturnsCreatedAndLinked ==
    (runs # <<>> /\ ReturnedOk(LastRun)) =>
        LET run == runs[LastRun]
            created == {run.new_pub_id[id] : id \in DOMAIN run.new_pub_id}
                           \cap objects
            linked == {id \in run.file_paths : RowOf(id).object_id # NoId}
        IN  /\ run.result.created = Cardinality(created)
            /\ run.result.linked = Cardinality(linked)

\* The write of a step at one of its four write stages has something to
\* write.
WriteAttempted(run) ==
    \/ run.pc = "write_cas" /\ DOMAIN run.file_path_metas # {}
    \/ /\ run.pc = "connect_existing"
       /\ DOMAIN ConnectsToExisting(run.file_path_metas, run.existing_objects) # {}
    \/ run.pc = "create"
    \/ run.pc = "connect_new"

\* C18: when a step passes one of its four write stages and the catalog is
\* left as it was, the write failed, and the step returns an error.
C18_WriteFailureIsReturned ==
    [][\A r \in RunSlots :
          (/\ r \in RunIds
           /\ runs'[r] # runs[r]
           /\ WriteAttempted(runs[r])
           /\ file_paths' = file_paths
           /\ objects' = objects) =>
              /\ runs'[r].pc = "done"
              /\ runs'[r].result.status = "err"
      ]_vars

\* The file_paths of a chunk whose file is not on the disk: computing their
\* metadata fails with an io::Error.
Failing(chunk, rows) ==
    {id \in chunk : \E x \in rows : x.id = id /\ x.materialized_path.rel \notin fs}

\* C19: after each stage of a step, the file_paths of its chunk whose
\* metadata fails are skipped and only they: they have no cas_id, no link
\* and no Object; the metadata stage never makes the step return an error;
\* the step goes on with the metadata of exactly the other file_paths and
\* writes their cas_id; when the catalog does not fail, it returns success
\* with every other file_path of the chunk linked to an Object.
C19_FailingFilePathsSkipped ==
    [][\A r \in RunSlots :
          (r \in DOMAIN runs' /\ (r \in RunIds => runs'[r] # runs[r])) =>
              LET run == runs'[r]
                  failing == Failing(run.file_paths, file_paths')
                  others == run.file_paths \ failing
              IN  /\ \A x \in file_paths' :
                         x.id \in failing => x.cas_id = NoCas /\ x.object_id = NoId
                  /\ failing \cap (run.updated_file_paths
                                      \cup run.requiring_new_object
                                      \cup DOMAIN run.new_pub_id) = {}
                  /\ (r \in RunIds /\ runs[r].pc = "metadata" /\ run # runs[r]) =>
                         run.pc = "write_cas" /\ run.result = NoResult
                  /\ run.pc # "metadata" =>
                         /\ DOMAIN run.file_path_metas = others
                         /\ \A x \in file_paths' :
                                x.id \in others =>
                                    run.file_path_metas[x.id] =
                                        generate_cas_id(x.materialized_path.rel)
                  /\ (run.pc \notin {"metadata", "write_cas"}
                          /\ run.result.status # "err") =>
                         \A x \in file_paths' :
                             x.id \in others =>
                                 x.cas_id = generate_cas_id(x.materialized_path.rel)
                  /\ run.result.status # "err"
                  /\ run.pc = "done" =>
                         /\ run.result.status = "ok"
                         /\ \A x \in file_paths' :
                                x.id \in others => x.object_id \in objects'
      ]_vars

\* A step returned success on a chunk of two file_paths, one whose metadata
\* failed and one that it linked to the Object it created.
C19_Witness ==
    /\ runs # <<>> /\ ReturnedOk(LastRun)
    /\ LET run == runs[LastRun]
           failing == Failing(run.file_paths, file_paths)
       IN  /\ Cardinality(run.file_paths) = 2
           /\ Cardinality(failing) = 1
           /\ run.result.created = 1
           /\ \E id \in run.file_paths \ failing :
                  RowOf(id).object_id \in objects

\* Some file_path linked to an Object carries this cas_id.
Carried(cas, rows) == \E x \in rows : x.object_id # NoId /\ x.cas_id = cas

\* The cas_ids of the file_paths of the Objects a step's query returned.
Seen(run) == {fp.cas_id : fp \in UNION {o.file_paths : o \in run.existing_objects}}

\* C20: the Objects a step's query returns carry exactly those cas_ids of
\* the chunk that a linked file_path carries.  When the step passes the
\* connect stage, the file_paths with metadata whose cas_id was found so are
\* exactly those it connects, each to an existing Object having a file_path
\* with that cas_id, and no Object is created then; the other file_paths
\* with metadata are exactly those left for the create stage, still
\* unlinked.  The create stage makes Objects for those only, and the
\* connect-to-new stage leaves the links of the first branch as they are.
C20_ExactlyOneBranch ==
    [][\A r \in RunSlots :
          (r \in RunIds /\ runs'[r] # runs[r]) =>
              LET run == runs'[r]
                  metas == runs[r].file_path_metas
                  existing == {id \in DOMAIN metas : metas[id] \in Seen(runs[r])}
              IN  /\ (runs[r].pc = "find_existing"
                          /\ run.result.status # "err") =>
                         \A id \in DOMAIN metas :
                             metas[id] \in Seen(run) <=> Carried(metas[id], file_paths)
                  /\ (runs[r].pc = "connect_existing"
                          /\ run.result.status # "err") =>
                         /\ run.updated_file_paths = existing
                         /\ run.requiring_new_object = DOMAIN metas \ existing
                         /\ objects' = objects
                         /\ \A x \in file_paths' :
                                x.id \in existing =>
                                    /\ x.object_id \in objects
                                    /\ \E y \in file_paths :
                                           /\ y.object_id = x.object_id
                                           /\ y.cas_id = metas[x.id]
                         /\ \A x \in file_paths' :
                                x.id \in DOMAIN metas \ existing =>
                                    x.object_id = NoId
                  /\ runs[r].pc = "create" =>
                         /\ DOMAIN run.new_pub_id = runs[r].requiring_new_object
                         /\ run.requiring_new_object \cap run.updated_file_paths = {}
                  /\ runs[r].pc = "connect_new" =>
                         \A x \in file_paths' :
                             x.id \in run.updated_file_paths => x \in file_paths
      ]_vars

\* A step returned having connected one file_path of its chunk to an Object
\* that existed and the other to an Object it created.
C20_Witness ==
    /\ runs # <<>> /\ ReturnedOk(LastRun)
    /\ LET run == runs[LastRun]
       IN  /\ run.updated_file_paths # {}
           /\ run.requiring_new_object # {}
           /\ \A id \in run.file_paths : RowOf(id).object_id \in objects
           /\ \E a \in run.updated_file_paths : \E b \in run.requiring_new_object :
                  RowOf(a).object_id # RowOf(b).object_id

----------------------------------------------------------------------------
(* The thumbnailer job: submission and init                                *)
(* (core/src/object/preview/thumbnail/thumbnailer_job.rs).                 *)

\* The extension column of a file_path: d1/a and d2/x are images, d1/b is a
\* video, d1/c is a text file.
extension(rel) ==
    IF rel = <<"d1", "a">> THEN "png"
    ELSE IF rel = <<"d2", "x">> THEN "jpg"
    ELSE IF rel = <<"d1", "b">> THEN "mp4"
    ELSE IF rel = <<"d1", "c">> THEN "txt"
    ELSE ""

FILTERED_IMAGE_EXTENSIONS == {"png", "jpg"}
FILTERED_VIDEO_EXTENSIONS == {"mp4"}

\* The `ffmpeg` feature of the build (lines 100-118).
ffmpeg == TRUE

\* The rows of a set as a sequence ordered by id.
RECURSIVE ById(_)
ById(rows) ==
    IF rows = {} THEN <<>>
    ELSE LET first == CHOOSE r \in rows : \A x \in rows : r.id <= x.id
         IN  <<first>> \o ById(rows \ {first})

\* file_path::materialized_path::starts_with.
starts_with(mp, prefix) == IsPrefix(prefix.rel, mp.rel)

\* get_files_by_extensions, lines 168-187: the rows of the location whose
\* extension is one of `extensions` and whose materialized path starts with
\* the directory's, each selected as (materialized_path, cas_id).
get_files_by_extensions(rows, materialized_path, extensions, kind) ==
    LET hits == {r \in rows :
                    /\ extension(r.materialized_path.rel) \in extensions
                    /\ starts_with(r.materialized_path, materialized_path)}
        sorted == ById(hits)
    IN  [i \in 1..Len(sorted) |->
            [file_path |-> [materialized_path |-> sorted[i].materialized_path,
                            cas_id |-> sorted[i].cas_id],
             kind |-> kind]]

\* A thumbnailer job's state: init, the locals of init kept across its
\* awaits (materialized_path, image_files), steps and data.
NewThumbnailerJob(sub_path, background) ==
    [name |-> "thumbnailer",
     init |-> [location_id |-> 1, sub_path |-> sub_path,
               background |-> background],
     status |-> "Running", error |-> "none", pc |-> "validate",
     materialized_path |-> MaterializedPathError, image_files |-> <<>>,
     steps |-> <<>>, data |-> NoData]

\* The runtime's deduplication, as for the indexer.
SubmitThumbnailer(sub_path, background, force) ==
    /\ Len(jobs) < MaxJobs
    /\ force \/ \A k \in JobIds :
                   Active(k) =>
                       JobHash(jobs[k])
                           # JobHash(NewThumbnailerJob(sub_path, background))
    /\ jobs' = Append(jobs, NewThumbnailerJob(sub_path, background))
    /\ UNCHANGED <<fs, file_paths, objects, last_id, runs, bus>>

\* Lines 70-83: validate the sub_path and build the materialized path of the
\* directory; an error is returned from init and the job fails.
ThumbnailerValidate(j) ==
    /\ Active(j) /\ jobs[j].pc = "validate"
    /\ LET sub_path == jobs[j].init.sub_path
           checked == IF sub_path.some THEN ValidateSubPath(sub_path.path)
                      ELSE [ok |-> TRUE, full_path |-> location_path,
                            error |-> "none"]
           materialized_path ==
               MaterializedPath(location_path, checked.full_path, TRUE)
       IN  IF ~checked.ok
           THEN jobs' = [jobs EXCEPT ![j].status = "Failed",
                                     ![j].error = checked.error]
           ELSE IF ~materialized_path.ok
           THEN jobs' = [jobs EXCEPT ![j].status = "Failed",
                                     ![j].error = "MaterializedPath"]
           ELSE jobs' = [jobs EXCEPT ![j].materialized_path = materialized_path,
                                     ![j].pc = "images"]
    /\ UNCHANGED <<fs, file_paths, objects, last_id, runs, bus>>

\* Lines 88-98: the thumbnail directory is created in the data directory,
\* which is outside the location, and the image files are queried.
ThumbnailerImages(j) ==
    /\ Active(j) /\ jobs[j].pc = "images"
    /\ jobs' = [jobs EXCEPT
                   ![j].image_files =
                       get_files_by_extensions(file_paths,
                                               jobs[j].materialized_path,
                                               FILTERED_IMAGE_EXTENSIONS, "Image"),
                   ![j].pc = "videos"]
    /\ UNCHANGED <<fs, file_paths, objects, last_id, runs, bus>>

\* Lines 100-136: the video files are queried when the build has ffmpeg,
\* then data and the step queue are set.
ThumbnailerVideos(j) ==
    /\ Active(j) /\ jobs[j].pc = "videos"
    /\ LET video_files ==
               IF ffmpeg
               THEN get_files_by_extensions(file_paths,
                                            jobs[j].materialized_path,
                                            FILTERED_VIDEO_EXTENSIONS, "Video")
               ELSE <<>>
           all_files == jobs[j].image_files \o video_files
       IN  jobs' = [jobs EXCEPT
                       ![j].data = [location_id |-> jobs[j].init.location_id,
                                    materialized_path |-> jobs[j].materialized_path,
                                    thumbnails_created |-> 0],
                       ![j].steps = all_files,
                       ![j].pc = "thumbnails"]
    /\ UNCHANGED <<fs, file_paths, objects, last_id, runs, bus>>

\* The catalog with the files of `indexed` indexed and those of `identified`
\* given their cas_id.
Catalog(indexed, identified) ==
    {IF r.materialized_path.rel \in identified
     THEN [r EXCEPT !.cas_id = generate_cas_id(r.materialized_path.rel)]
     ELSE r :
        r \in {x \in IndexedRows :
                  x.materialized_path.is_dir \/ x.materialized_path.rel \in indexed}}

\* The sub_paths a thumbnailer job is submitted with.
OptionalSubPaths == {None} \cup {Some(p) : p \in SubPaths \cup BadSubPaths}

----------------------------------------------------------------------------
(* Indexer and thumbnailer jobs submitted with any sub_path, on a location *)
(* that is indexed and partly identified.                                  *)

InitThumbnailer ==
    /\ fs = Files
    /\ \E indexed \in {Files, Files \ {<<"d1", "c">>}} :
           \E identified \in SUBSET indexed :
               file_paths = Catalog(indexed, identified)
    /\ objects = {}
    /\ last_id = Cold
    /\ jobs = <<>>
    /\ runs = <<>>
    /\ bus = NoBus

NextThumbnailer ==
    \/ \E s \in SubPaths : \E force \in BOOLEAN : Submit(s, force)
    \/ \E j \in JobSlots : InitGetMax(j)
    \/ \E j \in JobSlots : InitWalk(j)
    \/ \E j \in JobSlots : InitQuery(j)
    \/ \E j \in JobSlots : InitReserve(j)
    \/ \E j \in JobSlots : ExecuteStep(j)
    \/ \E j \in JobSlots : Finalize(j)
    \/ \E s \in OptionalSubPaths : \E background, force \in BOOLEAN :
           SubmitThumbnailer(s, background, force)
    \/ \E j \in JobSlots : ThumbnailerValidate(j)
    \/ \E j \in JobSlots : ThumbnailerImages(j)
    \/ \E j \in JobSlots : ThumbnailerVideos(j)

SpecThumbnailer == InitThumbnailer /\ [][NextThumbnailer]_vars

----------------------------------------------------------------------------
(* Indexer and thumbnailer jobs run one after the other, submitted with    *)
(* any sub_path.                                                           *)

SubmitThumbnailerSeq(sub_path, background) ==
    NoneActive /\ SubmitThumbnailer(sub_path, background, FALSE)

NextSubPath ==
    \/ \E s \in SubPaths \cup BadSubPaths : SubmitSeq(s)
    \/ \E j \in JobSlots : InitGetMax(j)
    \/ \E j \in JobSlots : InitWalk(j)
    \/ \E j \in JobSlots : InitQuery(j)
    \/ \E j \in JobSlots : InitReserve(j)
    \/ \E j \in JobSlots : ExecuteStep(j)
    \/ \E j \in JobSlots : Finalize(j)
    \/ \E s \in OptionalSubPaths : \E background \in BOOLEAN :
           SubmitThumbnailerSeq(s, background)
    \/ \E j \in JobSlots : ThumbnailerValidate(j)
    \/ \E j \in JobSlots : ThumbnailerImages(j)
    \/ \E j \in JobSlots : ThumbnailerVideos(j)

SpecSubPath == InitThumbnailer /\ [][NextSubPath]_vars

----------------------------------------------------------------------------
(* Claims about the thumbnailer and about submission.                      *)

IsThumbnailer(job) == job.name = "thumbnailer"

\* C14: every step in a thumbnailer job's step queue refers to a file_path
\* whose cas_id is not null.
C14_StepsHaveCasId ==
    \A j \in JobIds :
        IsThumbnailer(jobs[j]) =>
            \A i \in 1..Len(jobs[j].steps) :
                jobs[j].steps[i].file_path.cas_id # NoCas

\* The location's id high-watermark: what the allocator answers.
Watermark == get_max_file_path_id(last_id, file_paths)

\* The sub_path a job was submitted with, <<>> when it has none.
SubPathOf(job) ==
    IF IsThumbnailer(job) THEN job.init.sub_path.path ELSE job.init.sub_path

\* C15: while a job submitted with a sub_path outside the location or not
\* naming an existing directory runs, no step changes the catalog, the disk
\* or the id high-watermark; the job walks nothing, its step queue stays
\* empty and its data unset, it never gets past the validation, and it can
\* only end Failed with SubPathNotInLocation or SubPathNotDirectory.
C15_BadSubPathFailsInit ==
    [][\A j \in JobSlots :
          (Active(j) /\ SubPathOf(jobs[j]) \in BadSubPaths) =>
              /\ file_paths' = file_paths
              /\ fs' = fs
              /\ Watermark' = Watermark
              /\ jobs'[j].steps = <<>>
              /\ jobs'[j].data = NoData
              /\ ~IsThumbnailer(jobs[j]) => jobs'[j].found = <<>>
              /\ jobs'[j].pc \in {"get_max", "walk", "validate"}
              /\ jobs'[j].status \in {"Running", "Failed"}
              /\ jobs'[j].status = "Failed" =>
                     jobs'[j].error \in {"SubPathNotInLocation",
                                         "SubPathNotDirectory"}
      ]_vars

\* An indexer job failed with SubPathNotInLocation and a thumbnailer job
\* failed with SubPathNotDirectory; the first read the allocator cold.
C15_Witness ==
    /\ last_id # Cold
    /\ \E j, k \in JobIds :
           /\ ~IsThumbnailer(jobs[j]) /\ IsThumbnailer(jobs[k])
           /\ jobs[j].status = "Failed" /\ jobs[k].status = "Failed"
           /\ jobs[j].error = "SubPathNotInLocation"
           /\ jobs[k].error = "SubPathNotDirectory"

\* C17: a submission that is not forced is rejected only when a Running job
\* of the same kind has the same init: for the thumbnailer the same
\* location, sub_path (absent or present) and background flag.
C17_RejectedOnlyIfSameInit ==
    Len(jobs) < MaxJobs =>
        /\ \A s \in OptionalSubPaths : \A background \in BOOLEAN :
               ~(ENABLED SubmitThumbnailer(s, background, FALSE)) =>
                   \E k \in JobIds :
                       /\ Active(k) /\ IsThumbnailer(jobs[k])
                       /\ jobs[k].init = NewThumbnailerJob(s, background).init
        /\ \A s \in SubPaths :
               ~(ENABLED Submit(s, FALSE)) =>
                   \E k \in JobIds :
                       /\ Active(k) /\ ~IsThumbnailer(jobs[k])
                       /\ jobs[k].init = NewJob(s).init

----------------------------------------------------------------------------
(* The event bus and the invalidateQuery subscription.                     *)

\* CoreEvent, lines 25-29.
CoreEventKinds ==
    {"NewThumbnail", "InvalidateOperation", "InvalidateOperationDebounced"}

\* Duration::from_millis(1000 / 10), line 115.
DebounceMs == 1000 \div 10

\* Lines 107-108: subscribe to the bus and take the reference instant.
Subscribe ==
    /\ ~bus.subscribed
    /\ bus' = [bus EXCEPT !.subscribed = TRUE, !.last = bus.now]
    /\ UNCHANGED <<fs, file_paths, objects, last_id, jobs, runs>>

\* event_bus.send on the bounded broadcast channel: the sender never waits;
\* a full receiver loses its oldest event and is marked as lagging.  An
\* event sent while nobody is subscribed is not kept.
Publish(kind) ==
    /\ bus.sent < MaxEvents
    /\ LET event == [kind |-> kind, n |-> bus.sent + 1]
           live == bus.subscribed /\ ~bus.closed
           full == Len(bus.buffer) = BusCapacity
       IN  bus' = [bus EXCEPT
                      !.sent = bus.sent + 1,
                      !.published = IF bus.subscribed
                                    THEN Append(bus.published, event)
                                    ELSE bus.published,
                      !.buffer = IF ~live THEN bus.buffer
                                 ELSE IF full THEN Append(Tail(bus.buffer), event)
                                 ELSE Append(bus.buffer, event),
                      !.lagged = bus.lagged \/ (live /\ full)]
    /\ UNCHANGED <<fs, file_paths, objects, last_id, jobs, runs>>

\* The match with every InvalidateOperation debounced as well.
Handle_DebounceAll(event, current, last) ==
    IF event.kind \in {"InvalidateOperation", "InvalidateOperationDebounced"}
    THEN IF current - last > DebounceMs
         THEN [yield |-> TRUE, last |-> current]
         ELSE [yield |-> FALSE, last |-> last]
    ELSE [yield |-> FALSE, last |-> last]

\* The match with a debounce window closed at 100 ms instead of open.
Handle_DebounceAtLeast(event, current, last) ==
    IF event.kind = "InvalidateOperation"
    THEN [yield |-> TRUE, last |-> last]
    ELSE IF event.kind = "InvalidateOperationDebounced"
    THEN IF current - last >= DebounceMs
         THEN [yield |-> TRUE, last |-> current]
         ELSE [yield |-> FALSE, last |-> last]
    ELSE [yield |-> FALSE, last |-> last]

\* The match with a yielded InvalidateOperation restarting the window.
Handle_InvalidateMovesLast(event, current, last) ==
    IF event.kind = "InvalidateOperation"
    THEN [yield |-> TRUE, last |-> current]
    ELSE IF event.kind = "InvalidateOperationDebounced"
    THEN IF current - last > DebounceMs
         THEN [yield |-> TRUE, last |-> current]
         ELSE [yield |-> FALSE, last |-> last]
    ELSE [yield |-> FALSE, last |-> last]

\* Lines 111-121: what the subscription does with a received event.
Handle(event, current, last) ==
    IF event.kind = "InvalidateOperation"
    THEN [yield |-> TRUE, last |-> last]
    ELSE IF event.kind = "InvalidateOperationDebounced"
    THEN IF current - last > DebounceMs
         THEN [yield |-> TRUE, last |-> current]
         ELSE [yield |-> FALSE, last |-> last]
    ELSE [yield |-> FALSE, last |-> last]

\* Line 110: one turn of `while let Ok(event) = event_bus_rx.recv().await`.
\* A lagging receiver gets Err(Lagged), which ends the loop and the stream.
Recv ==
    /\ bus.subscribed /\ ~bus.closed
    /\ IF bus.lagged
       THEN bus' = [bus EXCEPT !.closed = TRUE]
       ELSE /\ bus.buffer # <<>>
            /\ LET event == Head(bus.buffer)
                   h == Handle(event, bus.now, bus.last)
               IN  bus' = [bus EXCEPT
                              !.buffer = Tail(bus.buffer),
                              !.last = h.last,
                              !.yielded = IF h.yield
                                          THEN Append(bus.yielded,
                                                      [kind |-> event.kind,
                                                       n |-> event.n,
                                                       at |-> bus.now])
                                          ELSE bus.yielded]
    /\ UNCHANGED <<fs, file_paths, objects, last_id, jobs, runs>>

\* Time passes.
Tick ==
    /\ bus.now + TickMs <= MaxTime
    /\ bus' = [bus EXCEPT !.now = bus.now + TickMs]
    /\ UNCHANGED <<fs, file_paths, objects, last_id, jobs, runs>>

InitBus ==
    /\ fs = {}
    /\ file_paths = BaseRows
    /\ objects = {}
    /\ last_id = Cold
    /\ jobs = <<>>
    /\ runs = <<>>
    /\ bus = NoBus

NextBus ==
    \/ Subscribe
    \/ \E kind \in CoreEventKinds : Publish(kind)
    \/ Recv
    \/ Tick

SpecBus == InitBus /\ [][NextBus]_vars

----------------------------------------------------------------------------
(* Claims about the event bus.                                             *)

IsInvalidate(e) == e.kind = "InvalidateOperation"

\* The publication numbers of the InvalidateOperation events of a sequence.
Ops(events) ==
    LET ops == SelectSeq(events, IsInvalidate)
    IN  [i \in 1..Len(ops) |-> ops[i].n]

\* C10 as claimed: once the subscriber has nothing more to receive, the
\* InvalidateOperation events it was yielded are those published since it
\* subscribed, once each and in publish order.
C10_EveryInvalidateYielded ==
    (bus.subscribed /\ (bus.closed \/ (bus.buffer = <<>> /\ ~bus.lagged))) =>
        Ops(bus.yielded) = Ops(bus.published)

\* C10 as amended: as long as the subscriber's buffer has not overflowed,
\* the InvalidateOperation events published since it subscribed are the ones
\* yielded followed by the ones still buffered, once each and in publish
\* order; in every state the yielded ones are a prefix of the published ones.
C10_InvalidateYieldedUnlessLagged ==
    bus.subscribed =>
        /\ ~bus.lagged => Ops(bus.yielded) \o Ops(bus.buffer) = Ops(bus.published)
        /\ IsPrefix(Ops(bus.yielded), Ops(bus.published))

\* Two InvalidateOperation events yielded at the same instant, around a
\* debounced event and a thumbnail event, with nothing left to receive.
C10_Witness ==
    /\ bus.subscribed /\ ~bus.lagged /\ bus.buffer = <<>>
    /\ \E i, k \in 1..Len(bus.yielded) :
           /\ i < k
           /\ IsInvalidate(bus.yielded[i]) /\ IsInvalidate(bus.yielded[k])
           /\ bus.yielded[i].at = bus.yielded[k].at
           /\ \E d, t \in 1..Len(bus.published) :
                  /\ bus.published[d].kind = "InvalidateOperationDebounced"
                  /\ bus.published[t].kind = "NewThumbnail"
                  /\ bus.yielded[i].n < bus.published[d].n
                  /\ bus.published[d].n < bus.yielded[k].n
                  /\ bus.yielded[i].n < bus.published[t].n
                  /\ bus.published[t].n < bus.yielded[k].n

IsDebounced(e) == e.kind = "InvalidateOperationDebounced"

\* The publication numbers of the events of a sequence.
Numbers(events) == {events[i].n : i \in 1..Len(events)}

\* C11: any two InvalidateOperationDebounced events yielded to the subscriber
\* are more than 100 ms apart, and a debounced event taken from the buffer
\* is either yielded at that instant or dropped: it is neither kept for later
\* nor put back.
C11_DebouncedMoreThan100msApart ==
    [][ /\ \A i, k \in 1..Len(bus'.yielded) :
               (/\ i < k
                /\ IsDebounced(bus'.yielded[i])
                /\ IsDebounced(bus'.yielded[k])) =>
                   bus'.yielded[k].at - bus'.yielded[i].at > 100
        /\ (/\ bus.buffer # <<>>
            /\ IsDebounced(Head(bus.buffer))
            /\ bus'.buffer = Tail(bus.buffer)) =>
               LET event == Head(bus.buffer)
               IN  \/ bus'.yielded = bus.yielded
                   \/ bus'.yielded =
                          Append(bus.yielded,
                                 [kind |-> event.kind, n |-> event.n,
                                  at |-> bus.now])
        /\ \A i \in 1..Len(bus'.yielded) :
               IsDebounced(bus'.yielded[i]) =>
                   bus'.yielded[i].n \notin Numbers(bus'.buffer)
      ]_vars

\* Two debounced events were yielded 150 ms apart, and a debounced event
\* published between them was dropped.
C11_Witness ==
    \E i, k \in 1..Len(bus.yielded) :
        /\ i < k
        /\ IsDebounced(bus.yielded[i]) /\ IsDebounced(bus.yielded[k])
        /\ bus.yielded[k].at - bus.yielded[i].at = 150
        /\ \E d \in 1..Len(bus.published) :
               /\ IsDebounced(bus.published[d])
               /\ bus.yielded[i].n < bus.published[d].n
               /\ bus.published[d].n < bus.yielded[k].n
               /\ bus.published[d].n \notin Numbers(bus.yielded)

IsThumbnail(e) == e.kind = "NewThumbnail"

\* C12: every NewThumbnail event published since the subscriber opened its
\* stream has been yielded to it or is still waiting in its buffer.
C12_EveryThumbnailDelivered ==
    bus.subscribed =>
        \A i \in 1..Len(bus.published) :
            IsThumbnail(bus.published[i]) =>
                bus.published[i].n \in
                    Numbers(bus.yielded) \cup Numbers(bus.buffer)

\* C13: after the subscriber's buffer has overflowed the subscription is
\* still open, and the newest event published, when it is an
\* InvalidateOperation, has been yielded or is waiting in the buffer.
C13_OpenAfterOverflow ==
    (bus.subscribed /\ bus.lagged) =>
        /\ ~bus.closed
        /\ LET newest == bus.published[Len(bus.published)]
           IN  IsInvalidate(newest) =>
                   newest.n \in Numbers(bus.yielded) \cup Numbers(bus.buffer)

\* The yield instants of the debounced events yielded so far.
DebouncedAt(events) ==
    LET debounced == SelectSeq(events, IsDebounced)
    IN  [i \in 1..Len(debounced) |-> debounced[i].at]

\* C23: the reference instant is set to the subscription time by the
\* subscription, and afterwards it is the time of the last debounced event
\* yielded; receiving anything else, publishing and the passing of time
\* leave it alone.  A debounced event taken from the buffer is yielded if
\* and only if more than 100 ms have passed since the reference instant.
\* An event is yielded only when it is taken from the buffer, and no event
\* taken from it comes back, so a dropped event is never yielded later.
C23_DebounceAgainstReferenceInstant ==
    [][LET taken == /\ bus.buffer # <<>>
                    /\ bus'.buffer = Tail(bus.buffer)
                    /\ bus'.sent = bus.sent
           event == Head(bus.buffer)
           yielded_now == [kind |-> event.kind, n |-> event.n, at |-> bus.now]
       IN  /\ (~bus.subscribed /\ bus'.subscribed) => bus'.last = bus.now
           /\ (bus.subscribed /\ DebouncedAt(bus'.yielded) = <<>>) =>
                  bus'.last = bus.last
           /\ DebouncedAt(bus'.yielded) # <<>> =>
                  bus'.last = DebouncedAt(bus'.yielded)[Len(DebouncedAt(bus'.yielded))]
           /\ (taken /\ IsDebounced(event)) =>
                  IF bus.now - bus.last > 100
                  THEN bus'.yielded = Append(bus.yielded, yielded_now)
                  ELSE bus'.yielded = bus.yielded
           /\ (taken /\ IsInvalidate(event)) =>
                  /\ bus'.yielded = Append(bus.yielded, yielded_now)
                  /\ bus'.last = bus.last
           /\ ~taken => bus'.yielded = bus.yielded
           /\ taken => \A n \in Numbers(bus'.buffer) : n > event.n
      ]_vars

\* The last event published was a debounced event received 100 ms after a
\* yielded debounced event, in between an InvalidateOperation was yielded,
\* and the subscriber has nothing left to receive: the update is lost.
C23_Witness ==
    /\ bus.subscribed /\ ~bus.lagged /\ bus.buffer = <<>>
    /\ bus.sent = MaxEvents
    /\ Len(bus.published) >= 3
    /\ IsDebounced(bus.published[Len(bus.published)])
    /\ bus.published[Len(bus.published)].n \notin Numbers(bus.yielded)
    /\ bus.now - bus.last = 100
    /\ Len(bus.yielded) >= 2
    /\ IsInvalidate(bus.yielded[Len(bus.yielded)])
    /\ IsDebounced(bus.yielded[Len(bus.yielded) - 1])
    /\ bus.yielded[Len(bus.yielded)].at > bus.last

====
